---- MODULE Spec2Model ----
(***************************************************************************)
(* SyncroRMM contact export (syncro.py): the Syncro API client             *)
(* (_get_page, _get_all, get_headers, all_contacts, create_contact) and    *)
(* the export driver of the __main__ block, run against a Syncro endpoint  *)
(* whose responses are the environment's choice.                           *)
(***************************************************************************)
EXTENDS Integers, Sequences, FiniteSets, TLC

\* ---------------------------------------------------------------- bounds
\* largest page number / page count the endpoint reports
MaxPages == 2
\* most contact records in one page payload
MaxContacts == 2
\* most keyword arguments in one create_contact call
MaxKwargs == 2
\* most contact records an endpoint serves to one data pass
MaxRows == 4
\* the request log keeps the first MaxLog GET requests of a run
MaxLog == MaxPages + 1

\* ---------------------------------------------------------------- values
\* Python's None (the default of all_contacts' customer_id, of args.customer_id)
None == "None"
\* the value given with -c / --customer-id
CustomerIds == {None, "42"}
\* exit_code while the process has not exited
Running == -1
\* HTTP status codes the endpoint answers with
Statuses == {200, 201, 404, 500}

\* a value that may be absent from a JSON object: {} or {v}
Opt(S) == {{}} \cup {{x} : x \in S}
\* dict.get(key, default) on such a value
DictGet(opt, default) == IF opt = {} THEN default ELSE CHOOSE x \in opt : TRUE

\* Contact records as the API returns them: ordered key/value pairs.
c1 == << <<"id", "1">>, <<"name", "ann">> >>
c2 == << <<"id", "2">> >>
Contacts == {c1, c2}
\* the "contacts" collection of one page payload
PagePayloads == UNION {[1..n -> Contacts] : n \in 0..MaxContacts}
\* content of a file already present at the output path
Stale == << <<"stale">> >>

\* dict.keys() in insertion order
Keys(rec) == [i \in 1..Len(rec) |-> rec[i][1]]
KeySet(rec) == {rec[i][1] : i \in 1..Len(rec)}
\* rowdict.get(key, restval)
RowGet(rec, key, restval) ==
    IF key \in KeySet(rec)
    THEN rec[CHOOSE i \in 1..Len(rec) : rec[i][1] = key][2]
    ELSE restval
Range(s) == {s[i] : i \in 1..Len(s)}

\* ---------------------------------------------------------------- state
VARIABLES
    pc,            \* position of the __main__ block / of the create_contact call
    customer_id,   \* args.customer_id
    api,           \* the endpoint: [kind, pages, records]
    fieldnames,    \* result of get_headers
    outfile,       \* the file at args.outfile: [state, rows]
    hgen,          \* the generator given to get_headers
    dgen,          \* the generator of the data pass: [state, page, total_pages]
    contacts_page, \* the loop variable of the data pass
    exit_code,     \* process exit code
    status,        \* response.status_code of the latest request (0: none yet)
    log,           \* the first MaxLog GET requests, each with its response status
    unlogged,      \* GET requests issued with the log full: 0, or 1 (odd), 2 (even)
    received,      \* contact records the data pass generator yielded, in order
    kwargs,        \* keyword arguments of the create_contact call
    posts,         \* POST requests issued, each with its response status
    result         \* outcome of the create_contact call

vars == <<pc, customer_id, api, fieldnames, outfile, hgen, dgen, contacts_page,
          exit_code, status, log, unlogged, received, kwargs, posts, result>>

createVars == <<kwargs, posts, result>>

\* ---------------------------------------------------------------- client
\* mutant: every status from 200 up is taken for a success
StatusOK_m(code) == code >= 200
\* response.status_code == 200
StatusOK(code) == code = 200

\* _get_all's first request
FirstPage == 1

\* mutant: the loop skips a page
NextPage_m(page) == page + 2
\* the page _get_all asks for after a payload that reported `page`
NextPage(page) == page + 1

\* mutant: the loop goes on while page <= total_pages
HasMore_m(page, total_pages) == page <= total_pages
\* the loop condition of _get_all
HasMore(page, total_pages) == page < total_pages

\* all_contacts: params = dict(customer_id=customer_id)
ContactParams(cid) == [customer_id |-> cid]

\* _get_page: parameters["page"] = page, sent as the JSON body of the GET
GetRequest(pass, parameters, page) ==
    [pass |-> pass] @@ [page |-> page] @@ parameters

\* _get_page on a 200 response: (data, meta.page or -1, meta.total_pages or -1)
MetaPage(resp) == DictGet(resp.page, -1)
MetaTotal(resp) == DictGet(resp.total_pages, -1)

\* all_contacts: page.get("contacts", [])
ContactsOf(resp) == DictGet(resp.contacts, <<>>)

\* The endpoints: "paged" ones hold N pages, up to MaxRows contact records in
\* all, and answer the request for page k with meta.page = k and
\* meta.total_pages = N; an "any" one holds up to MaxContacts records and
\* reports any page numbers, or none.
Endpoints ==
    [kind : {"paged"}, pages : 1..MaxPages, records : {MaxRows}]
    \cup {[kind |-> "any", pages |-> 0, records |-> MaxContacts]}
\* page numbers a payload may report
MetaVals == 1..MaxPages
\* a non-200 response
Failure(code) == [status |-> code, page |-> {}, total_pages |-> {}, contacts |-> {}]
Fits(c, room) == \A p \in c : Len(p) <= room
\* what the endpoint may answer to a GET for `page`, with room for `room` records
Responses(page, room) ==
    {Failure(s) : s \in Statuses \ {200}}
    \cup
    IF api.kind = "paged"
    THEN {r \in [status : {200}, page : {{page}}, total_pages : {{api.pages}},
                 contacts : Opt(PagePayloads)] : Fits(r.contacts, room)}
    ELSE {r \in [status : {200}, page : Opt(MetaVals), total_pages : Opt(MetaVals),
                 contacts : Opt(PagePayloads)] : Fits(r.contacts, room)}

\* the request log: the first MaxLog requests, then a count of the others
Record(l, e) == IF Len(l) < MaxLog THEN Append(l, e) ELSE l
Logged(req, resp) ==
    /\ log' = Record(log, req @@ [status |-> resp.status])
    /\ unlogged' = IF Len(log) < MaxLog THEN unlogged ELSE IF unlogged = 1 THEN 2 ELSE 1
    /\ status' = resp.status

\* mutant: an empty first page gives an empty header list instead of raising
get_headers_m(page) ==
    [raised |-> FALSE, fieldnames |-> IF Len(page) > 0 THEN Keys(page[1]) ELSE <<>>]
\* get_headers: data = page[0] raises IndexError on an empty page, else the
\* result is list(data.keys())
get_headers(page) ==
    IF Len(page) > 0
    THEN [raised |-> FALSE, fieldnames |-> Keys(page[1])]
    ELSE [raised |-> TRUE, fieldnames |-> <<>>]

\* csv.DictWriter (extrasaction="raise", restval=""): a row dict with a key
\* outside fieldnames raises ValueError
RowOK(fields, rec) == KeySet(rec) \subseteq Range(fields)
DictToList(fields, rec) == [i \in 1..Len(fields) |-> RowGet(rec, fields[i], "")]
\* writerows writes row by row and stops at the first row that raises
RECURSIVE GoodPrefix(_, _)
GoodPrefix(fields, page) ==
    IF page = <<>> \/ ~RowOK(fields, page[1]) THEN <<>>
    ELSE <<page[1]>> \o GoodPrefix(fields, Tail(page))
\* mutant: the rows of a page are written last record first
writerows_m(fields, rows, page) ==
    rows \o [i \in 1..Len(GoodPrefix(fields, page)) |->
                DictToList(fields, page[Len(GoodPrefix(fields, page)) + 1 - i])]
writerows(fields, rows, page) ==
    rows \o [i \in 1..Len(GoodPrefix(fields, page)) |-> DictToList(fields, page[i])]

\* _get_all resumed by next(): it is at its first line, or in its loop with
\* the test true
GenCanFetch ==
    dgen.state = "new" \/ (dgen.state = "suspended" /\ HasMore(dgen.page, dgen.total_pages))
GenPage == IF dgen.state = "new" THEN FirstPage ELSE NextPage(dgen.page)
\* one _get_page call of _get_all, answered by resp: the generator raises
\* APIError or is suspended at a yield with the page numbers of the payload
get_page(pass, parameters, resp) ==
    /\ Logged(GetRequest(pass, parameters, GenPage), resp)
    /\ dgen' = IF StatusOK(resp.status)
               THEN [state |-> "suspended", page |-> MetaPage(resp),
                     total_pages |-> MetaTotal(resp)]
               ELSE [dgen EXCEPT !.state = "raised"]
\* _get_all resumed with its loop test false: StopIteration
GenCanStop == dgen.state = "suspended" /\ ~HasMore(dgen.page, dgen.total_pages)

\* ---------------------------------------------------------------- export
\* mutant: the data pass resumes a sequence the header peek already advanced
NewGenerator_m == [state |-> "suspended", page |-> 1, total_pages |-> MaxPages]
\* api.all_contacts(...): a generator that has not run yet
NewGenerator == [state |-> "new", page |-> 0, total_pages |-> 0]

Init ==
    /\ pc = "start"
    /\ customer_id \in CustomerIds
    /\ api \in Endpoints
    /\ fieldnames = <<>>
    /\ outfile = [state |-> "untouched", rows |-> Stale]
    /\ hgen = "new"
    /\ dgen = NewGenerator
    /\ contacts_page = <<>>
    /\ exit_code = Running
    /\ status = 0
    /\ log = <<>>
    /\ unlogged = 0
    /\ received = <<>>
    /\ kwargs = <<>>
    /\ posts = <<>>
    /\ result = "none"

\* mutant: the handlers log the error and the script ends normally
Exit1_m == pc' = "exit" /\ exit_code' = 0
\* except APIError / except Exception: sys.exit(1)
Exit1 == pc' = "exit" /\ exit_code' = 1

\* fieldnames = api.get_headers(api.all_contacts())
HeaderDiscovery ==
    /\ pc = "start"
    /\ \E resp \in Responses(FirstPage, MaxContacts) :
        LET req == GetRequest("hdr", ContactParams(None), FirstPage) IN
        /\ Logged(req, resp)
        /\ IF ~StatusOK(resp.status)
           THEN /\ hgen' = "raised"
                /\ fieldnames' = fieldnames
                /\ Exit1
           ELSE /\ hgen' = "suspended"
                /\ IF ~get_headers(ContactsOf(resp)).raised
                   THEN /\ fieldnames' = get_headers(ContactsOf(resp)).fieldnames
                        /\ pc' = "open"
                        /\ exit_code' = exit_code
                   ELSE /\ fieldnames' = fieldnames
                        /\ Exit1
    /\ UNCHANGED <<customer_id, api, outfile, dgen, contacts_page, received>>
    /\ UNCHANGED createVars

\* with open(args.outfile, "w"); csvwriter.writeheader(); api.all_contacts(customer_id=...)
OpenOutfile ==
    /\ pc = "open"
    /\ outfile' = [state |-> "open", rows |-> <<fieldnames>>]
    /\ dgen' = NewGenerator
    /\ pc' = "fetch"
    /\ UNCHANGED <<customer_id, api, fieldnames, hgen, contacts_page, exit_code,
                   status, log, unlogged, received>>
    /\ UNCHANGED createVars

\* the data pass asks its generator for the next page and _get_all fetches one
DataFetch ==
    /\ pc = "fetch"
    /\ GenCanFetch
    /\ \E resp \in Responses(GenPage, api.records - Len(received)) :
        /\ get_page("data", ContactParams(customer_id), resp)
        /\ IF ~StatusOK(resp.status)
           THEN /\ outfile' = [outfile EXCEPT !.state = "closed"]
                /\ UNCHANGED <<contacts_page, received>>
                /\ Exit1
           ELSE /\ contacts_page' = ContactsOf(resp)
                /\ received' = received \o ContactsOf(resp)
                /\ pc' = "write"
                /\ UNCHANGED <<outfile, exit_code>>
    /\ UNCHANGED <<customer_id, api, fieldnames, hgen>>
    /\ UNCHANGED createVars

\* csvwriter.writerows(contacts_page)
WriteRows ==
    /\ pc = "write"
    /\ IF \A i \in 1..Len(contacts_page) : RowOK(fieldnames, contacts_page[i])
       THEN /\ outfile' = [outfile EXCEPT !.rows = writerows(fieldnames, @, contacts_page)]
            /\ pc' = "fetch"
            /\ exit_code' = exit_code
       ELSE /\ outfile' = [state |-> "closed",
                           rows |-> writerows(fieldnames, outfile.rows, contacts_page)]
            /\ Exit1
    /\ UNCHANGED <<customer_id, api, fieldnames, hgen, dgen, contacts_page,
                   status, log, unlogged, received>>
    /\ UNCHANGED createVars

\* the generator is exhausted: the with block ends, the script reports and exits 0
DataStop ==
    /\ pc = "fetch"
    /\ GenCanStop
    /\ dgen' = [dgen EXCEPT !.state = "done"]
    /\ outfile' = [outfile EXCEPT !.state = "closed"]
    /\ pc' = "exit"
    /\ exit_code' = 0
    /\ UNCHANGED <<customer_id, api, fieldnames, hgen, contacts_page, status, log,
                   unlogged, received>>
    /\ UNCHANGED createVars

\* ---------------------------------------------------------------- create_contact
AllowedFields == {"customer_id", "name", "address1", "address2", "city", "state",
                  "zip", "email", "phone", "mobile", "notes"}
\* keys a caller may pass: the allow-list and two keys outside it
FieldUniverse == AllowedFields \cup {"id", "business_name"}
FieldValues == {"x", "y"}
KwargsSet ==
    UNION {[S -> FieldValues] : S \in {T \in SUBSET FieldUniverse : Cardinality(T) <= MaxKwargs}}

\* mutant: the keyword arguments are passed on unfiltered
FilterFields_m(kw) == kw
\* data = {key: val for key, val in kwargs.items() if key in [...]}
FilterFields(kw) == [k \in (DOMAIN kw \cap AllowedFields) |-> kw[k]]

InitCreate ==
    /\ pc = "create"
    /\ kwargs \in KwargsSet
    /\ posts = <<>>
    /\ result = "none"
    /\ customer_id = None
    /\ api = [kind |-> "any", pages |-> 0, records |-> 0]
    /\ fieldnames = <<>>
    /\ outfile = [state |-> "untouched", rows |-> Stale]
    /\ hgen = "new"
    /\ dgen = NewGenerator
    /\ contacts_page = <<>>
    /\ exit_code = Running
    /\ status = 0
    /\ log = <<>>
    /\ unlogged = 0
    /\ received = <<>>

\* Syncro.create_contact(**kwargs)
create_contact ==
    /\ pc = "create"
    /\ \E code \in Statuses :
        /\ posts' = Append(posts, [url |-> "/contacts", data |-> FilterFields(kwargs),
                                   status |-> code])
        /\ status' = code
        /\ result' = IF StatusOK(code) THEN "True" ELSE "APIError"
    /\ pc' = "returned"
    /\ UNCHANGED <<customer_id, api, fieldnames, outfile, hgen, dgen, contacts_page,
                   exit_code, log, unlogged, received, kwargs>>

NextCreate == create_contact

SpecCreate == InitCreate /\ [][NextCreate]_vars

Next == HeaderDiscovery \/ OpenOutfile \/ DataFetch \/ WriteRows \/ DataStop

Spec == Init /\ [][Next]_vars

\* ---------------------------------------------------------------- all_customers
\* A caller that iterates api.all_customers() to exhaustion:
\*     for page in api.all_customers(): pass
\* all_customers passes no parameters; the customer records are not looked at.
NoParams == <<>>

InitPages ==
    /\ pc = "iterate"
    /\ api \in Endpoints
    /\ dgen = NewGenerator
    /\ status = 0
    /\ log = <<>>
    /\ unlogged = 0
    /\ customer_id = None
    /\ fieldnames = <<>>
    /\ outfile = [state |-> "untouched", rows |-> Stale]
    /\ hgen = "new"
    /\ contacts_page = <<>>
    /\ exit_code = Running
    /\ received = <<>>
    /\ kwargs = <<>>
    /\ posts = <<>>
    /\ result = "none"

\* next() on the generator of all_customers: _get_all fetches a page
CustomersFetch ==
    /\ pc = "iterate"
    /\ GenCanFetch
    /\ \E resp \in Responses(GenPage, 0) :
        /\ get_page("customers", NoParams, resp)
        /\ pc' = IF StatusOK(resp.status) THEN "iterate" ELSE "raised"
    /\ UNCHANGED <<customer_id, api, fieldnames, outfile, hgen, contacts_page,
                   exit_code, received>>
    /\ UNCHANGED createVars

\* next() on the generator of all_customers: _get_all returns, the loop ends
CustomersStop ==
    /\ pc = "iterate"
    /\ GenCanStop
    /\ dgen' = [dgen EXCEPT !.state = "done"]
    /\ pc' = "done"
    /\ UNCHANGED <<customer_id, api, fieldnames, outfile, hgen, contacts_page,
                   exit_code, status, log, unlogged, received>>
    /\ UNCHANGED createVars

NextPages == CustomersFetch \/ CustomersStop

SpecPages == InitPages /\ [][NextPages]_vars

\* the caller is single-threaded and every call blocks until it returns
LivePages == InitPages /\ [][NextPages]_vars /\ WF_vars(NextPages)

\* ---------------------------------------------------------------- properties
\* the logged requests of the data pass
DataLog == SelectSeq(log, LAMBDA e : e.pass = "data")
\* the CSV rows of a sequence of contact records
RowsOf(fields, recs) == [i \in 1..Len(recs) |-> DictToList(fields, recs[i])]
Exhausted == pc = "exit" /\ exit_code = 0
Untouched == outfile = [state |-> "untouched", rows |-> Stale]

\* C1: against an endpoint of N pages that answers the request for page k with
\* meta.page = k and meta.total_pages = N, an iteration of _get_all issues the
\* page parameters 1, 2, ... in order, never more than N, with no request
\* outside the log, and once it is exhausted it has issued exactly N requests,
\* 1..N, each of which gave a payload (N payloads yielded in request order).
C1_PagedVisitsEachPageOnce ==
    api.kind = "paged" =>
        /\ unlogged = 0
        /\ Len(log) <= api.pages
        /\ \A i \in 1..Len(log) : log[i].page = i
        /\ dgen.state = "done" =>
            /\ Len(log) = api.pages
            /\ \A i \in 1..Len(log) : log[i].status = 200
C1_Witness ==
    /\ api.kind = "paged" /\ api.pages = MaxPages
    /\ dgen.state = "done"
    /\ Len(log) = MaxPages

\* C2 (as claimed): with customer_id = "42" every GET request of the run, the
\* header discovery request included, carries customer_id = 42.
C2_EveryRequestFiltered ==
    customer_id = "42" => \A i \in 1..Len(log) : log[i].customer_id = "42"

\* C3: whenever the data pass is about to ask for a page, and when the run has
\* succeeded, the file holds the header row followed by one row per contact
\* record yielded so far, in the order yielded; while a page is being written
\* the file holds the header and the rows of the pages before it.
C3_RowsInFetchOrder ==
    /\ (pc = "fetch" \/ Exhausted) =>
            outfile.rows = <<fieldnames>> \o RowsOf(fieldnames, received)
    /\ pc = "write" =>
        /\ Len(received) >= Len(contacts_page)
        /\ received = SubSeq(received, 1, Len(received) - Len(contacts_page))
                        \o contacts_page
        /\ outfile.rows = <<fieldnames>> \o
             RowsOf(fieldnames, SubSeq(received, 1, Len(received) - Len(contacts_page)))
    /\ Exhausted => outfile.state = "closed"
C3_Witness ==
    /\ Exhausted
    /\ Len(DataLog) = 2 /\ unlogged = 0
    /\ Len(received) = 4
    /\ received[1] # received[2]
    /\ Len(outfile.rows) = 5

\* C4: if the first GET of the run is answered with 500, the process has exited
\* with code 1, no other request was made and the output file was never opened.
C4_FirstPage500 ==
    (Len(log) >= 1 /\ log[1].status = 500) =>
        /\ pc = "exit" /\ exit_code = 1
        /\ Len(log) = 1 /\ unlogged = 0
        /\ Untouched
C4_Witness == Len(log) = 1 /\ log[1].status = 500 /\ pc = "exit"

\* C5: a non-200 answer to a GET is the last request of the run: the generator
\* has raised, the process has exited with code 1, and the file is left as it
\* was: never opened when the header pass failed, holding the header and
\* exactly the rows of the pages fetched before when the data pass failed.
C5_FailureIsTerminal ==
    /\ \A i \in 1..Len(log) : log[i].status # 200 => (i = Len(log) /\ unlogged = 0)
    /\ (status # 0 /\ status # 200) =>
        /\ pc = "exit" /\ exit_code = 1
        /\ hgen = "raised" \/ dgen.state = "raised"
        /\ hgen = "raised" => (Untouched /\ Len(log) = 1)
        /\ dgen.state = "raised" =>
            /\ outfile.state = "closed"
            /\ outfile.rows = <<fieldnames>> \o RowsOf(fieldnames, received)
C5_Witness ==
    /\ dgen.state = "raised"
    /\ Len(DataLog) = 2 /\ DataLog[2].status = 500
    /\ Len(outfile.rows) = 3

\* C6 (as claimed): when the first payload of an iteration of _get_all reports
\* total_pages <= 1, whatever meta.page it reports, the generator ends without
\* a second GET request.
C6_OnePageWhenTotalAtMostOne ==
    [][(/\ dgen.state = "suspended"
        /\ Len(log) = 1
        /\ dgen.total_pages <= 1)
       => (log' = log /\ dgen'.state = "done")]_vars

\* C7: the run's first GET is the header peek, for page 1, and it is the only
\* request of the header pass, whose generator stays suspended; the data pass
\* starts again at page 1, and every contact of its first page is written as a
\* data row, so a successful run has asked for page 1 twice.
C7_HeaderPeekIsOneShot ==
    /\ Len(log) >= 1 => (log[1].pass = "hdr" /\ log[1].page = 1)
    /\ \A i \in 2..Len(log) : log[i].pass = "data"
    /\ Len(log) >= 2 => log[2].page = 1
    /\ hgen \in {"new", "suspended", "raised"}
    /\ (pc = "fetch" /\ Len(DataLog) = 1 /\ dgen.state = "suspended") =>
            outfile.rows = <<fieldnames>> \o RowsOf(fieldnames, contacts_page)
    /\ Exhausted =>
        /\ Len(log) >= 2 /\ log[1].page = 1 /\ log[2].page = 1
        /\ Len(outfile.rows) >= 1 + Len(received)
C7_Witness ==
    /\ Exhausted
    /\ api.kind = "paged" /\ api.pages = 2
    /\ Len(log) = 3
    /\ Len(received) = 4

\* C8 (as claimed): whatever 200 responses the endpoint returns, the iteration
\* of _get_all eventually ends.
C8_AlwaysEnds == <>(dgen.state \in {"done", "raised"})

\* C8 (amended): _get_all starts at page 1; resumed, it ends, without a
\* request, exactly when the payload it last yielded has page >= total_pages,
\* and otherwise issues one more request; so the sequence ends at the first
\* such payload, which it reaches against an endpoint of N pages, and it is
\* endless when no payload ever has page >= total_pages.
C8_EndsAtFirstLastPage ==
    /\ [](Len(log) >= 1 => log[1].page = 1)
    /\ [][dgen.state = "suspended" =>
            IF dgen.page >= dgen.total_pages
            THEN dgen'.state = "done" /\ log' = log /\ unlogged' = unlogged
            ELSE /\ dgen'.state \in {"suspended", "raised"}
                 /\ log' # log \/ unlogged' # unlogged]_vars
    /\ [](dgen.state = "done" => dgen.page >= dgen.total_pages)
    /\ (dgen.state = "suspended" /\ dgen.page >= dgen.total_pages)
            ~> (dgen.state = "done")
    /\ (api.kind = "paged") ~> (dgen.state \in {"done", "raised"})
C8_Witness ==
    /\ api.kind = "any"
    /\ dgen.state = "done"
    /\ Len(log) = 2
    /\ log[2].page = 2

\* C9: create_contact issues one POST whose body holds exactly the supplied
\* fields with an allow-listed key, values unchanged; it returns True when the
\* status is 200 and raises APIError for every other status.
C9_AllowList == {"customer_id", "name", "address1", "address2", "city", "state",
                 "zip", "email", "phone", "mobile", "notes"}
C9_CreateContactFilters ==
    /\ pc = "create" => (posts = <<>> /\ result = "none")
    /\ pc = "returned" =>
        /\ Len(posts) = 1
        /\ posts[1].url = "/contacts"
        /\ DOMAIN posts[1].data = DOMAIN kwargs \cap C9_AllowList
        /\ \A k \in DOMAIN posts[1].data : posts[1].data[k] = kwargs[k]
        /\ result = IF posts[1].status = 200 THEN "True" ELSE "APIError"
C9_Witness ==
    /\ pc = "returned"
    /\ DOMAIN kwargs = {"name", "business_name"}
    /\ DOMAIN posts[1].data = {"name"}
    /\ result = "True"

\* C10: the output file is opened only after header discovery gave a header
\* list; when header discovery fails or finds no contact in the first page the
\* run has ended with exit code 1 after that single request, and the file at
\* the output path still has its old content.
C10_OpenAfterHeaders ==
    /\ ~Untouched =>
        (fieldnames # <<>> /\ hgen = "suspended" /\ log[1].status = 200)
    /\ (hgen # "new" /\ (fieldnames = <<>> \/ log[1].status # 200)) =>
        /\ pc = "exit" /\ exit_code = 1
        /\ Untouched
        /\ Len(log) = 1 /\ unlogged = 0
        /\ dgen.state = "new"
C10_Witness ==
    /\ pc = "exit"
    /\ Len(log) = 1 /\ log[1].status = 200
    /\ fieldnames = <<>>

====
